---- MODULE Spec2Model ----
(***************************************************************************)
(* pcap.py: saves inv/pong messages of pcap files in Redis.                *)
(*                                                                         *)
(* One ingester processes one capture file: extract_streams queues the TCP *)
(* segments per flow, cache_messages drains every stream through the       *)
(* message decoder and cache_message, flushes the Redis pipeline, and      *)
(* cache_rtt computes the round-trip times and flushes again.  cron is the  *)
(* loop around it: ingesters that share a directory and the store claim    *)
(* the oldest capture file by renaming it, process it and remove it.       *)
(*                                                                         *)
(* Text is modelled by its pieces: a Redis key is the sequence of its      *)
(* ":"-separated fields and a field is the sequence of the strings that    *)
(* were formatted into it, so "ping:fe80::1-8333:7" is                     *)
(* << <<"ping">>, <<"fe80">>, <<>>, <<"1","-","8333">>, <<"7">> >>.       *)
(* A Redis value that may be missing is a sequence of length 0 or 1.       *)
(***************************************************************************)
EXTENDS Integers, Sequences, FiniteSets, TLC

\* ------------------------------------------------------------------ bounds
\* Packets per capture file.
MaxPkts == 3
\* Largest configured rtt_count.
MaxRttCount == 1
\* Capture files written to the directory while the ingesters run.
MaxFiles == 3

\* ------------------------------------------------------- small operators
Range(s) == {s[i] : i \in DOMAIN s}

\* ------------------------------------------------------------- the flows
\* stream_id = (src address, src port, dst address, dst port); an address is
\* the sequence of the ":"-separated fields of its text form.
Addr4 == << <<"10.0.0.1">> >>
Addr6 == << <<"fe80">>, <<>>, <<"1">> >>
AddrUs == << <<"10.0.0.9">> >>

F1 == <<Addr4, "8333", AddrUs, "50001">>
F2 == <<Addr6, "8333", AddrUs, "50002">>
Flows == {F1, F2}

\* node = (stream_id[0], stream_id[1])
Node(stream_id) == <<stream_id[1], stream_id[2]>>
Nodes == {Node(f) : f \in Flows}

\* -------------------------------------------------------- configuration
\* SETTINGS['ttl'], seconds
Ttl == 10800

\* --------------------------------------------------------- the decoder
\* protocol.Serializer.deserialize_msg.  A frame is a header byte followed by
\* one payload byte that stands for the message it encodes.
HeaderLen == 1
Magic == "h"

Inv(entries) == [command |-> "inv", inventory |-> entries,
                 count |-> Len(entries), nonce |-> 0]
Pong(nonce) == [command |-> "pong", inventory |-> <<>>, count |-> 0,
                nonce |-> nonce]
Other(cmd) == [command |-> cmd, inventory |-> <<>>, count |-> 0, nonce |-> 0]

Entry(t, h) == [type |-> t, hash |-> h]

Hashes == {"H1", "H2", "T1"}
Nonces == {7, 8}

PayloadBytes == {"B", "M", "P", "Q", "V"}

MsgOf(b) ==
  CASE b = "B" -> Inv(<<Entry(2, "H1")>>)
    [] b = "M" -> Inv(<<Entry(2, "H1"), Entry(1, "T1"), Entry(2, "H2")>>)
    [] b = "P" -> Pong(7)
    [] b = "Q" -> Pong(8)
    [] OTHER -> Other("verack")

NoMsg == Other("")

deserialize_msg(data) ==
  IF Len(data) < HeaderLen
    THEN [err |-> "HeaderTooShortError", msg |-> NoMsg, rest |-> <<>>]
  ELSE IF data[1] # Magic
    THEN [err |-> "ProtocolError", msg |-> NoMsg, rest |-> <<>>]
  ELSE IF Len(data) < HeaderLen + 1
    THEN [err |-> "PayloadTooShortError", msg |-> NoMsg, rest |-> <<>>]
  ELSE IF data[2] \notin PayloadBytes
    THEN [err |-> "ProtocolError", msg |-> NoMsg, rest |-> <<>>]
  ELSE [err |-> "ok", msg |-> MsgOf(data[2]),
        rest |-> SubSeq(data, HeaderLen + 2, Len(data))]

TooShort(r) == r.err \in {"HeaderTooShortError", "PayloadTooShortError"}

\* ---------------------------------------------------------- Redis keys
Str(n) ==
  CASE n = 1 -> "1"
    [] n = 2 -> "2"
    [] n = 7 -> "7"
    [] n = 8 -> "8"

\* "inv:{}:{}".format(inv['type'], inv['hash'])
InvKey(type, hash) == << <<"inv">>, <<Str(type)>>, <<hash>> >>

\* "r{}".format(key)
RKey(key) == << <<"r">> \o key[1] >> \o Tail(key)

\* "{}-{}".format(node[0], node[1]) inside the ping key
AddrPort(node) ==
  LET a == node[1]
  IN  [i \in 1..Len(a) |-> IF i = Len(a) THEN a[i] \o <<"-", node[2]>> ELSE a[i]]

\* "ping:{}-{}:{}".format(node[0], node[1], msg['nonce'])
PingKey(node, nonce) == << <<"ping">> >> \o AddrPort(node) \o << <<Str(nonce)>> >>

\* "rtt:{}".format(':'.join(key.split(":")[1:-1]))
RttKey(key) == << <<"rtt">> >> \o SubSeq(key, 2, Len(key) - 1)

LastBlockHash == << <<"lastblockhash">> >>

InvKeys == {InvKey(t, h) : t \in {1, 2}, h \in Hashes}
RKeys == {RKey(k) : k \in InvKeys}
PingKeys == {PingKey(n, c) : n \in Nodes, c \in Nonces}
RttKeys == {RttKey(k) : k \in PingKeys}
AllKeys == InvKeys \cup RKeys \cup PingKeys \cup RttKeys \cup {LastBlockHash}

\* ------------------------------------------------------- the Redis store
\* REDIS_CONN: strings, sorted sets, lists and expiries by key.
StringKeys == RKeys \cup {LastBlockHash}
ListKeys == PingKeys \cup RttKeys

EmptyRedis ==
  [string |-> [k \in StringKeys |-> <<>>],
   zset   |-> [k \in InvKeys |-> [n \in Nodes |-> <<>>]],
   list   |-> [k \in ListKeys |-> <<>>],
   expire |-> [k \in AllKeys |-> <<>>]]

Exists(r, key) ==
  \/ key \in StringKeys /\ r.string[key] # <<>>
  \/ key \in InvKeys /\ \E n \in Nodes : r.zset[key][n] # <<>>
  \/ key \in ListKeys /\ r.list[key] # <<>>

\* REDIS_CONN.get(rkey): <<>> is None
RedisGet(r, key) == r.string[key]

\* REDIS_CONN.set(rkey, timestamp): SET drops the key's expiry
RedisSet(r, key, value) ==
  [r EXCEPT !.string[key] = <<value>>, !.expire[key] = <<>>]

ZAdd(r, key, score, member) == [r EXCEPT !.zset[key][member] = <<score>>]

Expire(r, key, seconds) ==
  IF Exists(r, key) THEN [r EXCEPT !.expire[key] = <<seconds>>] ELSE r

\* append only if the list exists
RPushX(r, key, value) ==
  IF r.list[key] # <<>> THEN [r EXCEPT !.list[key] = Append(@, value)] ELSE r

LPush(r, key, value) == [r EXCEPT !.list[key] = <<value>> \o @]

\* Redis list indexes: negative ones count from the end, both are clamped.
Slice(l, start, end) ==
  LET n  == Len(l)
      s0 == IF start < 0 THEN n + start ELSE start
      e0 == IF end < 0 THEN n + end ELSE end
      s  == IF s0 < 0 THEN 0 ELSE s0
      e  == IF e0 >= n THEN n - 1 ELSE e0
  IN  IF s > e \/ s >= n THEN <<>> ELSE SubSeq(l, s + 1, e + 1)

LRange(r, key, start, end) == Slice(r.list[key], start, end)

\* a list trimmed to nothing is deleted, and its expiry with it
LTrim(r, key, start, end) ==
  LET l == Slice(r.list[key], start, end)
  IN  [r EXCEPT !.list[key] = l,
                !.expire[key] = IF l = <<>> THEN <<>> ELSE @]

\* ---------------------------------------------------- the Redis pipeline
NoNode == <<>>

Op(op, key, a, b, member, str) ==
  [op |-> op, key |-> key, a |-> a, b |-> b, member |-> member, str |-> str]

SetOp(key, str)             == Op("set", key, 0, 0, NoNode, str)
ZAddOp(key, score, member)  == Op("zadd", key, score, 0, member, "")
ExpireOp(key, seconds)      == Op("expire", key, seconds, 0, NoNode, "")
RPushXOp(key, value)        == Op("rpushx", key, value, 0, NoNode, "")
LPushOp(key, value)         == Op("lpush", key, value, 0, NoNode, "")
LTrimOp(key, start, end)    == Op("ltrim", key, start, end, NoNode, "")

Apply(r, o) ==
  CASE o.op = "set"    -> RedisSet(r, o.key, o.str)
    [] o.op = "zadd"   -> ZAdd(r, o.key, o.a, o.member)
    [] o.op = "expire" -> Expire(r, o.key, o.a)
    [] o.op = "rpushx" -> RPushX(r, o.key, o.a)
    [] o.op = "lpush"  -> LPush(r, o.key, o.a)
    [] o.op = "ltrim"  -> LTrim(r, o.key, o.a, o.b)

\* A flush that drops the staged commands.
Execute_Nothing(r, pipe) == r

RECURSIVE Execute(_, _)
\* redis_pipe.execute(): the staged commands, in the order staged
Execute(r, pipe) ==
  IF pipe = <<>> THEN r ELSE Execute(Apply(r, Head(pipe)), Tail(pipe))

\* ------------------------------------------------------------ the capture
\* A pcap record: the capture time <<seconds, microseconds>>, whether the
\* frame carries TCP, the flow, the TCP sequence number and the payload.
Pkt(flow, seq, ts, data) ==
  [tcp |-> TRUE, flow |-> flow, seq |-> seq, ts |-> ts, data |-> data]

\* int(timestamp * 1000)
ToMs(ts) == ts[1] * 1000 + ts[2] \div 1000

\* --------------------------------------------------------------- Stream
\* An item of the PriorityQueue: (tcp_pkt.seq, (timestamp, tcp_pkt)); id is
\* the identity of the packet object, its position in the capture.
Item(id, p) ==
  [seq |-> p.seq, timestamp |-> ToMs(p.ts),
   pkt |-> [id |-> id, seq |-> p.seq, data |-> p.data]]

\* Tuple order of the items.  Items equal in (seq, timestamp) are ordered by
\* comparing the packet objects, which define no order of their own.
ItemLess(a, b) ==
  \/ a.seq < b.seq
  \/ a.seq = b.seq /\ a.timestamp < b.timestamp

\* A queue that hands its items out in the order they were put.
SegmentsGet_Fifo(segments) ==
  {e \in segments : \A o \in segments : e.pkt.id <= o.pkt.id}

\* self.segments.get(): the items one of which the queue hands out
SegmentsGet(segments) ==
  {e \in segments : \A o \in segments : ~ItemLess(o, e)}

\* A generator that forgets the sequence numbers it yielded.
SeqsAdd_Never(seqs, yielded) == seqs

\* seqs.add(tcp_pkt.seq), run when the generator is resumed after its yield
SeqsAdd(seqs, yielded) == seqs \cup Range(yielded)

RECURSIVE DataLoop_Stale(_, _, _)
\* A generator that sets self.timestamp only for the segments it skips.
DataLoop_Stale(segments, seqs, timestamp) ==
  IF segments = {}
    THEN {[stop |-> TRUE, data |-> <<>>, seq |-> 0, id |-> 0,
           segments |-> segments, seqs |-> seqs, timestamp |-> timestamp]}
    ELSE UNION {
           IF e.pkt.seq \in seqs
             THEN DataLoop_Stale(segments \ {e}, seqs, e.timestamp)
             ELSE {[stop |-> FALSE, data |-> e.pkt.data, seq |-> e.pkt.seq,
                    id |-> e.pkt.id, segments |-> segments \ {e},
                    seqs |-> seqs, timestamp |-> timestamp]}
           : e \in SegmentsGet(segments)}

\* A generator that ends at the first duplicate it meets.
DataLoop_BreakOnDup(segments, seqs, timestamp) ==
  IF segments = {}
    THEN {[stop |-> TRUE, data |-> <<>>, seq |-> 0, id |-> 0,
           segments |-> segments, seqs |-> seqs, timestamp |-> timestamp]}
    ELSE {IF e.pkt.seq \in seqs
            THEN [stop |-> TRUE, data |-> <<>>, seq |-> 0, id |-> 0,
                  segments |-> segments \ {e}, seqs |-> seqs,
                  timestamp |-> e.timestamp]
            ELSE [stop |-> FALSE, data |-> e.pkt.data, seq |-> e.pkt.seq,
                  id |-> e.pkt.id, segments |-> segments \ {e},
                  seqs |-> seqs, timestamp |-> e.timestamp]
          : e \in SegmentsGet(segments)}

RECURSIVE DataLoop(_, _, _)
\* The while loop of Stream.data() up to its next yield or its end: the set of
\* outcomes (one, unless items tie).
DataLoop(segments, seqs, timestamp) ==
  IF segments = {}
    THEN {[stop |-> TRUE, data |-> <<>>, seq |-> 0, id |-> 0,
           segments |-> segments, seqs |-> seqs, timestamp |-> timestamp]}
    ELSE UNION {
           IF e.pkt.seq \in seqs
             THEN DataLoop(segments \ {e}, seqs, e.timestamp)
             ELSE {[stop |-> FALSE, data |-> e.pkt.data, seq |-> e.pkt.seq,
                    id |-> e.pkt.id, segments |-> segments \ {e},
                    seqs |-> seqs, timestamp |-> e.timestamp]}
           : e \in SegmentsGet(segments)}

\* data.next()
DataNext(segments, seqs, yielded, timestamp) ==
  DataLoop(segments, SeqsAdd(seqs, yielded), timestamp)

\* ------------------------------------------------------- the framer loop
\* A framer that starts over from the next chunk when a frame is too short.
Extend_Replace(data, chunk) == chunk

\* _data += data.next()
Extend(data, chunk) == data \o chunk

\* A framer that keeps the malformed buffer and appends the next chunk.
Resync_Keep(data, chunk) == data \o chunk

\* _data = data.next()
Resync(data, chunk) == chunk

\* ---------------------------------------------------------- cache_message
\* The state cache_message works on: the store, the pipeline, self.keys and
\* self.count.
CacheState(conn, pipe, ks, cnt) ==
  [conn |-> conn, pipe |-> pipe, keys |-> ks, count |-> cnt]

\* A lookup whose result is taken for None whatever it is.
IsNone_Always(rkey_ms) == TRUE

\* rkey_ms is None
IsNone(rkey_ms) == rkey_ms = <<>>

\* (timestamp - int(rkey_ms)) / 1000 > SETTINGS['ttl']
Expired(timestamp, rkey_ms) == (timestamp - rkey_ms) \div 1000 > Ttl

\* REDIS_CONN.set(rkey, timestamp); self.redis_pipe.set("lastblockhash", ..)
FirstSeen(c, rkey, timestamp, hash) ==
  [c EXCEPT !.conn = RedisSet(@, rkey, timestamp),
            !.pipe = Append(@, SetOp(LastBlockHash, hash))]

\* A score written to the store at once, not staged.
PipeZAdd_Direct(c, key, timestamp, node) ==
  [c EXCEPT !.conn = ZAdd(@, key, timestamp, node)]

\* self.redis_pipe.zadd(key, timestamp, node)
PipeZAdd(c, key, timestamp, node) ==
  [c EXCEPT !.pipe = Append(@, ZAddOp(key, timestamp, node))]

\* self.redis_pipe.expire(key, SETTINGS['ttl'])
PipeExpire(c, key) == [c EXCEPT !.pipe = Append(@, ExpireOp(key, Ttl))]

\* the body of "for inv in msg['inventory']" behind the lookup of rkey, whose
\* result is ms
CacheInvWith(c, node, timestamp, inv, ms) ==
  LET key     == InvKey(inv.type, inv.hash)
      rkey    == RKey(key)
      staged(d) == PipeExpire(PipeZAdd(d, key, timestamp, node), key)
  IN  IF inv.type = 2
        THEN IF IsNone(ms)
               THEN staged(FirstSeen(c, rkey, timestamp, inv.hash))
             ELSE IF Expired(timestamp, ms[1])
               THEN c
             ELSE staged(c)
        ELSE staged(c)

\* one pass through the body of "for inv in msg['inventory']"
CacheInv(c, node, timestamp, inv) ==
  CacheInvWith(c, node, timestamp, inv,
               RedisGet(c.conn, RKey(InvKey(inv.type, inv.hash))))

RECURSIVE CacheInventory(_, _, _, _)
CacheInventory(c, node, timestamp, inventory) ==
  IF inventory = <<>> THEN c
  ELSE CacheInventory(CacheInv(c, node, timestamp, Head(inventory)),
                      node, timestamp, Tail(inventory))

\* A pong staged as a plain append, which creates the list.
PipeRPushX_Push(c, key, timestamp) ==
  [c EXCEPT !.pipe = Append(@, LPushOp(key, timestamp))]

\* self.redis_pipe.rpushx(key, timestamp)
PipeRPushX(c, key, timestamp) ==
  [c EXCEPT !.pipe = Append(@, RPushXOp(key, timestamp))]

\* A key remembered only when its list is in the store.
KeysAdd_IfExists(c, key) ==
  IF c.conn.list[key] # <<>> THEN [c EXCEPT !.keys = @ \cup {key}] ELSE c

\* self.keys.add(key)
KeysAdd(c, key) == [c EXCEPT !.keys = @ \cup {key}]

cache_message(c, node, timestamp, msg) ==
  IF msg.command = "inv"
    THEN [CacheInventory(c, node, timestamp, msg.inventory)
            EXCEPT !.count = @ + msg.count]
  ELSE IF msg.command = "pong"
    THEN LET key == PingKey(node, msg.nonce)
         IN  [KeysAdd(PipeRPushX(c, key, timestamp), key)
                EXCEPT !.count = @ + 1]
  ELSE c

\* -------------------------------------------------------------- cache_rtt
\* ping - pong
Rtt_Swapped(timestamps) == timestamps[1] - timestamps[2]

\* int(timestamps[1]) - int(timestamps[0])  # pong - ping
Rtt(timestamps) == timestamps[2] - timestamps[1]

\* the body of "for key in self.keys"
CacheRttKey(conn, pipe, key, rtt_count) ==
  LET timestamps == LRange(conn, key, 0, 1)
      rtt_key    == RttKey(key)
  IN  IF Len(timestamps) > 1
        THEN pipe \o <<LPushOp(rtt_key, Rtt(timestamps)),
                       LTrimOp(rtt_key, 0, rtt_count - 1),
                       ExpireOp(rtt_key, Ttl)>>
        ELSE pipe

\* ------------------------------------------------------------- the inputs
\* The records a capture file may hold, in four families of files, each
\* varying what one stage of the pipeline depends on; i is the position of the
\* record in the file.

\* Segments of one flow: sequence numbers, capture times and payloads vary,
\* so segments arrive out of order and repeat sequence numbers.
ReassemblyPkts ==
  {Pkt(F1, seq, ts, data) :
     seq \in {100, 104}, ts \in {<<1, 0>>, <<2, 500000>>},
     data \in {<<"h", "B">>, <<"h", "P">>}}

\* Payloads of one flow, in order: whole frames, split frames, frames behind a
\* malformed prefix, a bad payload, an empty payload, a frame that is not TCP.
FramingChunks ==
  {<<>>, <<"h">>, <<"B">>, <<"h", "B">>, <<"B", "h">>, <<"x", "h", "B">>,
   <<"h", "P", "h", "B">>, <<"h", "x">>, <<"h", "V">>}

NotTcp == [tcp |-> FALSE, flow |-> F1, seq |-> 0, ts |-> <<0, 0>>, data |-> <<>>]

FramingPkts(i) ==
  {Pkt(F1, 100 + 4 * i, <<i, 0>>, c) : c \in FramingChunks} \cup {NotTcp}

\* inv messages of two peers, one frame per segment, at times before, at and
\* past the TTL of a first-seen timestamp of 1000000 ms.
InvPkts(i) ==
  {Pkt(F1, 100 + 4 * i, ts, data) :
     ts \in {<<1000, 0>>, <<11800, 1999>>},
     data \in {<<"h", "B">>, <<"h", "M">>}}
  \cup
  {Pkt(F2, 100 + 4 * i, ts, data) :
     ts \in {<<5000, 0>>, <<11801, 0>>},
     data \in {<<"h", "B">>, <<"h", "M">>}}

\* pong messages of two peers, one frame per segment, before and after the
\* ping recorded at 2000 ms.
PongPkts(i) ==
  {Pkt(F1, 100 + 4 * i, ts, data) :
     ts \in {<<1, 0>>, <<2, 500000>>},
     data \in {<<"h", "P">>, <<"h", "Q">>}}
  \cup
  {Pkt(F2, 100 + 4 * i, ts, <<"h", "P">>) : ts \in {<<1, 0>>, <<2, 500000>>}}

\* Segments of two flows with a short frame, a whole frame or a malformed
\* one each; the sequence number changes with every third segment, so
\* segments of one flow repeat it.
MixedPkts(i) ==
  {Pkt(f, 100 + 4 * (i \div 3), <<i, 0>>, data) :
     f \in Flows, data \in {<<"h">>, <<"h", "P">>, <<"x">>}}

Records(capture, i) ==
  CASE capture = "reassembly" -> ReassemblyPkts
    [] capture = "framing"    -> FramingPkts(i)
    [] capture = "inv"        -> InvPkts(i)
    [] capture = "pong"       -> PongPkts(i)
    [] capture = "mixed"      -> MixedPkts(i)

\* The ping lists the pinger has written: none, one ping, or several keys of
\* which one was already answered by a pong of an earlier file.
WithPings(l) == [EmptyRedis EXCEPT !.list = l @@ @]

PingStores ==
  {EmptyRedis,
   WithPings((PingKey(Node(F1), 7) :> <<2000>>)),
   WithPings((PingKey(Node(F1), 7) :> <<2000>>)
             @@ (PingKey(Node(F1), 8) :> <<2000>>)
             @@ (PingKey(Node(F2), 7) :> <<2000, 2400>>))}

\* The kind of file, the store it meets and the configured rtt_count.
Inputs ==
  {[capture |-> c, conn |-> EmptyRedis, rtt_count |-> MaxRttCount] :
     c \in {"reassembly", "framing", "inv"}}
  \cup
  {[capture |-> "pong", conn |-> r, rtt_count |-> n] :
     r \in PingStores, n \in 0..MaxRttCount}

\* ---------------------------------------------------------------- the state
VARIABLES
  capture,      \* the family of the capture file
  pos,          \* records read by extract_streams
  pc,           \* where cache_messages stands
  rtt_count,    \* SETTINGS['rtt_count']
  REDIS_CONN,   \* the store
  redis_pipe,   \* Cache.redis_pipe, the staged commands
  streams,      \* Cache.streams: flow -> queued items
  todo,         \* the flows iteritems() has not reached
  stream_id,    \* the flow being drained, <<>> before the first
  timestamp,    \* Cache.stream.timestamp
  seqs,         \* seqs of the running Stream.data()
  yielded,      \* <<seq>> while data() is suspended at its yield
  _data,        \* the framer's buffer
  keys,         \* Cache.keys
  count,        \* Cache.count
  rtt_todo,     \* the keys cache_rtt has not reached
  queued,       \* history: every item put, by flow
  chunks,       \* history: what data() yielded, by flow
  forwarded,    \* history: the calls of cache_message
  redis0,       \* history: the store when the file was opened
  pcap_dir,     \* the names of the files in SETTINGS['pcap_dir']
  written,      \* the capture files written so far
  cron_pc,      \* where cron stands, by ingester
  oldest,       \* cron's oldest, by ingester
  dump,         \* cron's dump, by ingester
  rkey_ms,      \* cache_message's rkey_ms, by ingester
  pipes,        \* Cache.redis_pipe, by ingester
  readers,      \* history: the ingesters that ran cache_messages, by file
  passes        \* history: the passes completed, by file

\* The state of cron and of the Cache it runs, one per ingester.
cron_vars == <<pcap_dir, written, cron_pc, oldest, dump, rkey_ms, pipes,
               readers, passes>>

\* The state of the Cache of one file, apart from the store.
file_vars == <<capture, pos, pc, rtt_count, redis_pipe, streams, todo,
               stream_id, timestamp, seqs, yielded, _data, keys, count,
               rtt_todo, queued, chunks, forwarded, redis0>>

vars == <<capture, pos, pc, rtt_count, REDIS_CONN, redis_pipe, streams, todo,
          stream_id, timestamp, seqs, yielded, _data, keys, count, rtt_todo,
          queued, chunks, forwarded, redis0, cron_vars>>

\* The ingesters that share the directory and the store.
Procs == {"a", "b"}

\* The capture files, by the number in their name.
Files == 1..MaxFiles

\* No cron is running.
CronOff ==
  /\ pcap_dir = {}
  /\ written = 0
  /\ cron_pc = [p \in Procs |-> "off"]
  /\ oldest = [p \in Procs |-> <<>>]
  /\ dump = [p \in Procs |-> <<>>]
  /\ rkey_ms = [p \in Procs |-> <<>>]
  /\ pipes = [p \in Procs |-> <<>>]
  /\ readers = [f \in Files |-> {}]
  /\ passes = [f \in Files |-> <<>>]

\* Cache.__init__ on a claimed file of the kind in
InitWith(in) ==
  /\ capture = in.capture
  /\ REDIS_CONN = in.conn
  /\ redis0 = in.conn
  /\ rtt_count = in.rtt_count
  /\ pos = 0
  /\ pc = "extract"
  /\ redis_pipe = <<>>
  /\ streams = [f \in Flows |-> {}]
  /\ todo = {}
  /\ stream_id = <<>>
  /\ timestamp = 0
  /\ seqs = {}
  /\ yielded = <<>>
  /\ _data = <<>>
  /\ keys = {}
  /\ count = 0
  /\ rtt_todo = {}
  /\ queued = [f \in Flows |-> {}]
  /\ chunks = [f \in Flows |-> <<>>]
  /\ forwarded = <<>>
  /\ CronOff

Init == \E in \in Inputs : InitWith(in)

\* A file of two flows whose buffers meet every outcome of the decoder.
InitMixed ==
  InitWith([capture |-> "mixed", conn |-> EmptyRedis, rtt_count |-> MaxRttCount])

gen_vars == <<streams, timestamp, seqs, yielded, chunks>>
cache_vars == <<REDIS_CONN, redis_pipe, keys, count>>

\* ------------------------------------------------------------ the actions
\* extract_streams: one record of the capture
ReadPacket ==
  /\ pc = "extract"
  /\ pos < MaxPkts
  /\ \E p \in Records(capture, pos + 1) :
       IF p.tcp /\ Len(p.data) > 0
         THEN /\ streams' = [streams EXCEPT ![p.flow] = @ \cup {Item(pos + 1, p)}]
              /\ queued' = [queued EXCEPT ![p.flow] = @ \cup {Item(pos + 1, p)}]
         ELSE UNCHANGED <<streams, queued>>
  /\ pos' = pos + 1
  /\ UNCHANGED cron_vars
  /\ UNCHANGED <<capture, pc, rtt_count, todo, stream_id, timestamp, seqs, yielded,
                 _data, rtt_todo, chunks, forwarded, redis0>>
  /\ UNCHANGED cache_vars

\* extract_streams returns; the for loop over self.streams starts
EndExtract ==
  /\ pc = "extract"
  /\ pc' = "streams"
  /\ todo' = {f \in Flows : streams[f] # {}}
  /\ UNCHANGED cron_vars
  /\ UNCHANGED <<capture, pos, rtt_count, stream_id, _data, rtt_todo, queued,
                 forwarded, redis0>>
  /\ UNCHANGED gen_vars
  /\ UNCHANGED cache_vars

\* What one data.next() does to the generator and its stream.
Pulled(f, r) ==
  /\ streams' = [streams EXCEPT ![f] = r.segments]
  /\ timestamp' = r.timestamp
  /\ seqs' = r.seqs
  /\ yielded' = IF r.stop THEN <<>> ELSE <<r.seq>>
  /\ chunks' = IF r.stop THEN chunks
               ELSE [chunks EXCEPT ![f] = Append(@,
                       [seq |-> r.seq, data |-> r.data, id |-> r.id,
                        timestamp |-> r.timestamp])]

\* the next stream of the for loop: data = self.stream.data(); data.next()
NextStream ==
  /\ pc = "streams"
  /\ \E f \in todo :
       /\ todo' = todo \ {f}
       /\ stream_id' = f
       /\ \E r \in DataNext(streams[f], {}, <<>>, timestamp) :
            /\ Pulled(f, r)
            /\ _data' = r.data
            /\ pc' = IF r.stop THEN "streams" ELSE "framer"
  /\ UNCHANGED cron_vars
  /\ UNCHANGED <<capture, pos, rtt_count, rtt_todo, queued, forwarded, redis0>>
  /\ UNCHANGED cache_vars

\* deserialize_msg returns a message: cache_message, then the leftover
Deserialized ==
  /\ pc = "framer"
  /\ LET d == deserialize_msg(_data)
         c == cache_message(CacheState(REDIS_CONN, redis_pipe, keys, count),
                            Node(stream_id), timestamp, d.msg)
     IN  /\ d.err = "ok"
         /\ REDIS_CONN' = c.conn
         /\ redis_pipe' = c.pipe
         /\ keys' = c.keys
         /\ count' = c.count
         /\ _data' = d.rest
         /\ forwarded' = Append(forwarded,
              [stream_id |-> stream_id, node |-> Node(stream_id),
               timestamp |-> timestamp, msg |-> d.msg])
  /\ UNCHANGED cron_vars
  /\ UNCHANGED <<capture, pos, pc, rtt_count, todo, stream_id, rtt_todo, queued,
                 redis0>>
  /\ UNCHANGED gen_vars

\* HeaderTooShortError, PayloadTooShortError: _data += data.next(), or break
TooShortError ==
  /\ pc = "framer"
  /\ TooShort(deserialize_msg(_data))
  /\ \E r \in DataNext(streams[stream_id], seqs, yielded, timestamp) :
       /\ Pulled(stream_id, r)
       /\ _data' = IF r.stop THEN _data ELSE Extend(_data, r.data)
       /\ pc' = IF r.stop THEN "streams" ELSE "framer"
  /\ UNCHANGED cron_vars
  /\ UNCHANGED <<capture, pos, rtt_count, todo, stream_id, rtt_todo, queued,
                 forwarded, redis0>>
  /\ UNCHANGED cache_vars

\* ProtocolError: _data = data.next(), or break
ProtocolError ==
  /\ pc = "framer"
  /\ deserialize_msg(_data).err = "ProtocolError"
  /\ \E r \in DataNext(streams[stream_id], seqs, yielded, timestamp) :
       /\ Pulled(stream_id, r)
       /\ _data' = IF r.stop THEN _data ELSE Resync(_data, r.data)
       /\ pc' = IF r.stop THEN "streams" ELSE "framer"
  /\ UNCHANGED cron_vars
  /\ UNCHANGED <<capture, pos, rtt_count, todo, stream_id, rtt_todo, queued,
                 forwarded, redis0>>
  /\ UNCHANGED cache_vars

\* self.redis_pipe.execute() after the last stream; cache_rtt starts
ExecuteMessages ==
  /\ pc = "streams"
  /\ todo = {}
  /\ REDIS_CONN' = Execute(REDIS_CONN, redis_pipe)
  /\ redis_pipe' = <<>>
  /\ rtt_todo' = keys
  /\ pc' = "rtt"
  /\ UNCHANGED cron_vars
  /\ UNCHANGED <<capture, pos, rtt_count, todo, stream_id, _data, keys, count,
                 queued, forwarded, redis0>>
  /\ UNCHANGED gen_vars

\* cache_rtt: one key of self.keys
CacheRtt ==
  /\ pc = "rtt"
  /\ \E key \in rtt_todo :
       /\ redis_pipe' = CacheRttKey(REDIS_CONN, redis_pipe, key, rtt_count)
       /\ rtt_todo' = rtt_todo \ {key}
  /\ UNCHANGED cron_vars
  /\ UNCHANGED <<capture, pos, pc, rtt_count, REDIS_CONN, todo, stream_id, _data,
                 keys, count, queued, forwarded, redis0>>
  /\ UNCHANGED gen_vars

\* cache_rtt: self.redis_pipe.execute()
ExecuteRtt ==
  /\ pc = "rtt"
  /\ rtt_todo = {}
  /\ REDIS_CONN' = Execute(REDIS_CONN, redis_pipe)
  /\ redis_pipe' = <<>>
  /\ pc' = "done"
  /\ UNCHANGED cron_vars
  /\ UNCHANGED <<capture, pos, rtt_count, todo, stream_id, _data, keys, count,
                 rtt_todo, queued, forwarded, redis0>>
  /\ UNCHANGED gen_vars

Next ==
  \/ ReadPacket
  \/ EndExtract
  \/ NextStream
  \/ Deserialized
  \/ TooShortError
  \/ ProtocolError
  \/ ExecuteMessages
  \/ CacheRtt
  \/ ExecuteRtt

Spec == Init /\ [][Next]_vars

\* The ingester is one sequential process: it takes its next step as long as
\* it has one.
SpecFair == InitMixed /\ [][Next]_vars /\ WF_vars(Next)

\* ------------------------------------------------------------------- cron
\* A file name: the number that orders the names and the extension.
Name(n, ext) == <<n, ext>>

\* glob.iglob("{}/*.pcap".format(SETTINGS['pcap_dir']))
Glob(dir) == {f \in dir : f[2] = ".pcap"}

\* min(..) and max(..) of file names
Min(S) == CHOOSE f \in S : \A g \in S : f[1] <= g[1]
Max(S) == CHOOSE f \in S : \A g \in S : f[1] >= g[1]

\* A driver that takes the only file, or the newest, too.
IsLatest_Never(tmp, newest) == FALSE

\* oldest == latest
IsLatest(tmp, newest) == tmp = newest

\* tmp.replace(".pcap", ".pcap_")
Replace(tmp) ==
  Name(tmp[1], CASE tmp[2] = ".pcap"  -> ".pcap_"
                 [] tmp[2] = ".pcap_" -> ".pcap__"
                 [] OTHER -> tmp[2])

\* A rename that succeeds whether the file is there or not.
RenameOk_Always(dir, tmp) == TRUE

\* os.rename(tmp, dump) raises OSError when tmp is not there
RenameOk(dir, tmp) == tmp \in dir

\* What a capture file holds: a block inv of one hash from one peer, at the
\* time the file was written.
FileInv == Entry(2, "H1")
FileNode == Node(F1)
FileTime(f) == f[1] * 1000

\* The ingesters start with the directory empty and the store empty.
CronInit ==
  /\ capture = "none"
  /\ pos = 0
  /\ pc = "cron"
  /\ rtt_count = MaxRttCount
  /\ REDIS_CONN = EmptyRedis
  /\ redis0 = EmptyRedis
  /\ redis_pipe = <<>>
  /\ streams = [f \in Flows |-> {}]
  /\ todo = {}
  /\ stream_id = <<>>
  /\ timestamp = 0
  /\ seqs = {}
  /\ yielded = <<>>
  /\ _data = <<>>
  /\ keys = {}
  /\ count = 0
  /\ rtt_todo = {}
  /\ queued = [f \in Flows |-> {}]
  /\ chunks = [f \in Flows |-> <<>>]
  /\ forwarded = <<>>
  /\ pcap_dir = {}
  /\ written = 0
  /\ cron_pc = [p \in Procs |-> "sleep"]
  /\ oldest = [p \in Procs |-> <<>>]
  /\ dump = [p \in Procs |-> <<>>]
  /\ rkey_ms = [p \in Procs |-> <<>>]
  /\ pipes = [p \in Procs |-> <<>>]
  /\ readers = [f \in Files |-> {}]
  /\ passes = [f \in Files |-> <<>>]

\* The capture writes its next file, named after every file before it.
Rotate ==
  /\ written < MaxFiles
  /\ written' = written + 1
  /\ pcap_dir' = pcap_dir \cup {Name(written + 1, ".pcap")}
  /\ UNCHANGED <<cron_pc, oldest, dump, rkey_ms, pipes, readers, passes>>
  /\ UNCHANGED REDIS_CONN
  /\ UNCHANGED file_vars

\* time.sleep(1); oldest = min(glob..), ValueError when there is no file
GlobOldest(p) ==
  /\ cron_pc[p] = "sleep"
  /\ IF Glob(pcap_dir) = {}
       THEN UNCHANGED <<cron_pc, oldest>>
       ELSE /\ oldest' = [oldest EXCEPT ![p] = Min(Glob(pcap_dir))]
            /\ cron_pc' = [cron_pc EXCEPT ![p] = "latest"]
  /\ UNCHANGED <<pcap_dir, written, dump, rkey_ms, pipes, readers, passes>>
  /\ UNCHANGED REDIS_CONN
  /\ UNCHANGED file_vars

\* latest = max(glob..), which nothing catches when there is no file;
\* if oldest == latest: continue; dump = tmp.replace(..)
GlobLatest(p) ==
  /\ cron_pc[p] = "latest"
  /\ IF Glob(pcap_dir) = {}
       THEN cron_pc' = [cron_pc EXCEPT ![p] = "ValueError"] /\ dump' = dump
       ELSE IF IsLatest(oldest[p], Max(Glob(pcap_dir)))
         THEN cron_pc' = [cron_pc EXCEPT ![p] = "sleep"] /\ dump' = dump
         ELSE /\ cron_pc' = [cron_pc EXCEPT ![p] = "rename"]
              /\ dump' = [dump EXCEPT ![p] = Replace(oldest[p])]
  /\ UNCHANGED <<pcap_dir, written, oldest, rkey_ms, pipes, readers, passes>>
  /\ UNCHANGED REDIS_CONN
  /\ UNCHANGED file_vars

\* os.rename(tmp, dump), OSError: continue; Cache(filepath=dump) and
\* cache_messages up to the message of the file
Rename(p) ==
  /\ cron_pc[p] = "rename"
  /\ IF RenameOk(pcap_dir, oldest[p])
       THEN /\ pcap_dir' = (pcap_dir \ {oldest[p]}) \cup {dump[p]}
            /\ cron_pc' = [cron_pc EXCEPT ![p] = "get"]
            /\ readers' = [readers EXCEPT ![dump[p][1]] = @ \cup {p}]
       ELSE /\ cron_pc' = [cron_pc EXCEPT ![p] = "sleep"]
            /\ UNCHANGED <<pcap_dir, readers>>
  /\ UNCHANGED <<written, oldest, dump, rkey_ms, pipes, passes>>
  /\ UNCHANGED REDIS_CONN
  /\ UNCHANGED file_vars

\* cache_message: rkey_ms = REDIS_CONN.get(rkey)
Get(p) ==
  /\ cron_pc[p] = "get"
  /\ rkey_ms' = [rkey_ms EXCEPT ![p] =
                   RedisGet(REDIS_CONN, RKey(InvKey(FileInv.type, FileInv.hash)))]
  /\ cron_pc' = [cron_pc EXCEPT ![p] = "cache"]
  /\ UNCHANGED <<pcap_dir, written, oldest, dump, pipes, readers, passes>>
  /\ UNCHANGED REDIS_CONN
  /\ UNCHANGED file_vars

\* cache_message behind the lookup: the first-seen write, the staging
\* (the Cache of an ingester in cron is modelled by its pipeline alone)
CacheBlock(p) ==
  /\ cron_pc[p] = "cache"
  /\ LET c == CacheInvWith(CacheState(REDIS_CONN, pipes[p], {}, 0), FileNode,
                            FileTime(dump[p]), FileInv, rkey_ms[p])
     IN  /\ REDIS_CONN' = c.conn
         /\ pipes' = [pipes EXCEPT ![p] = c.pipe]
  /\ cron_pc' = [cron_pc EXCEPT ![p] = "execute"]
  /\ UNCHANGED <<pcap_dir, written, oldest, dump, rkey_ms, readers, passes>>
  /\ UNCHANGED file_vars

\* cache_messages: self.redis_pipe.execute()
CronExecute(p) ==
  /\ cron_pc[p] = "execute"
  /\ REDIS_CONN' = Execute(REDIS_CONN, pipes[p])
  /\ pipes' = [pipes EXCEPT ![p] = <<>>]
  /\ passes' = [passes EXCEPT ![dump[p][1]] = Append(@, "messages")]
  /\ cron_pc' = [cron_pc EXCEPT ![p] = "rtt"]
  /\ UNCHANGED <<pcap_dir, written, oldest, dump, rkey_ms, readers>>
  /\ UNCHANGED file_vars

\* cache_messages: self.cache_rtt(), no key remembered, and its execute()
CronRtt(p) ==
  /\ cron_pc[p] = "rtt"
  /\ REDIS_CONN' = Execute(REDIS_CONN, pipes[p])
  /\ pipes' = [pipes EXCEPT ![p] = <<>>]
  /\ passes' = [passes EXCEPT ![dump[p][1]] = Append(@, "rtt")]
  /\ cron_pc' = [cron_pc EXCEPT ![p] = "remove"]
  /\ UNCHANGED <<pcap_dir, written, oldest, dump, rkey_ms, readers>>
  /\ UNCHANGED file_vars

\* os.remove(dump); the loop starts over
Remove(p) ==
  /\ cron_pc[p] = "remove"
  /\ pcap_dir' = pcap_dir \ {dump[p]}
  /\ cron_pc' = [cron_pc EXCEPT ![p] = "sleep"]
  /\ UNCHANGED <<written, oldest, dump, rkey_ms, pipes, readers, passes>>
  /\ UNCHANGED REDIS_CONN
  /\ UNCHANGED file_vars

CronNext ==
  \/ Rotate
  \/ \E p \in Procs : GlobOldest(p)
  \/ \E p \in Procs : GlobLatest(p)
  \/ \E p \in Procs : Rename(p)
  \/ \E p \in Procs : Get(p)
  \/ \E p \in Procs : CacheBlock(p)
  \/ \E p \in Procs : CronExecute(p)
  \/ \E p \in Procs : CronRtt(p)
  \/ \E p \in Procs : Remove(p)

SpecCron == CronInit /\ [][CronNext]_vars

\* =================================================================== claims
\* What the formulas below share.

\* The stream of flow f was drained to the end of its data().
Drained(f) ==
  /\ queued[f] # {}
  /\ pc # "extract"
  /\ f \notin todo
  /\ stream_id = f => pc # "framer"

\* No two queued segments of flow f carry the same sequence number.
DistinctSeqs(f) == \A a, b \in queued[f] : a.seq = b.seq => a = b

RECURSIVE BySeq(_)
\* The payloads of a set of segments by ascending sequence number; it looks
\* at sequence numbers and payloads only.
BySeq(S) ==
  IF S = {} THEN <<>>
  ELSE LET m == CHOOSE e \in S : \A o \in S : e.seq <= o.seq
       IN  <<m.pkt.data>> \o BySeq(S \ {m})

IsPrefix(s, t) == Len(s) <= Len(t) /\ s = SubSeq(t, 1, Len(s))

Payloads(f) == [i \in DOMAIN chunks[f] |-> chunks[f][i].data]

\* The commands a step staged.
Staged == SubSeq(redis_pipe', Len(redis_pipe) + 1, Len(redis_pipe'))

\* The chunk a step pulled from the stream being drained, if it pulled one.
PulledOne == Len(chunks'[stream_id]) = Len(chunks[stream_id]) + 1
NewChunk == chunks'[stream_id][Len(chunks'[stream_id])]

\* The peer's RTT key, from the peer and not from a ping key.
PeerRttKey(node) == << <<"rtt">> >> \o AddrPort(node)

H1Key == InvKey(2, "H1")

\* ----------------------------------------------------------------------- C1
\* C1: segments of one flow with pairwise distinct sequence numbers are
\* yielded by Stream.data() in strictly ascending sequence-number order,
\* whatever the order they were queued in: what has been yielded is a prefix
\* of the payloads sorted by sequence number, and all of them once the stream
\* is drained.
C1_AscendingOrder ==
  \A f \in Flows :
    DistinctSeqs(f) =>
      /\ \A i, j \in DOMAIN chunks[f] : i < j => chunks[f][i].seq < chunks[f][j].seq
      /\ IsPrefix(Payloads(f), BySeq(queued[f]))
      /\ Drained(f) => Payloads(f) = BySeq(queued[f])

\* A drained stream whose two segments were queued in descending order.
C1_Witness ==
  /\ Drained(F1)
  /\ DistinctSeqs(F1)
  /\ \E a, b \in queued[F1] : a.pkt.id < b.pkt.id /\ a.seq > b.seq
  /\ Len(chunks[F1]) = 2

\* ----------------------------------------------------------------------- C2
\* C2: every sequence number queued for a stream is yielded at most once by
\* Stream.data() and, once the stream is drained, exactly once: a further
\* segment with a sequence number already yielded is dropped whatever its
\* payload, and the queue is left empty.
C2_OncePerSeq ==
  \A f \in Flows :
    /\ \A i, j \in DOMAIN chunks[f] : chunks[f][i].seq = chunks[f][j].seq => i = j
    /\ Drained(f) =>
         /\ streams[f] = {}
         /\ \A e \in queued[f] : \E i \in DOMAIN chunks[f] : chunks[f][i].seq = e.seq
         /\ \A i \in DOMAIN chunks[f] :
              \E e \in queued[f] : e.pkt.id = chunks[f][i].id /\ e.seq = chunks[f][i].seq

\* A drained stream with two segments of one sequence number and two payloads.
C2_Witness ==
  /\ Drained(F1)
  /\ \E a, b \in queued[F1] : a.seq = b.seq /\ a.pkt.data # b.pkt.data
  /\ \E a \in queued[F1] : a.seq = 104
  /\ Len(chunks[F1]) = 2

\* ----------------------------------------------------------------------- C3
\* C3: when the decoder reports HeaderTooShort or PayloadTooShort the framer
\* forwards nothing and stages nothing; it appends the next chunk to the
\* buffer it has, or, when no chunk is left, ends the stream.  The buffer left
\* over is dropped: the next stream starts from its own first chunk.
C3_TooShortAppends ==
  [][/\ (pc = "framer" /\ TooShort(deserialize_msg(_data))) =>
          /\ forwarded' = forwarded
          /\ UNCHANGED cache_vars
          /\ IF PulledOne
               THEN pc' = "framer" /\ _data' = _data \o NewChunk.data
               ELSE chunks' = chunks /\ pc' = "streams"
     /\ (pc = "streams" /\ pc' = "framer") =>
          /\ forwarded' = forwarded
          /\ _data' = chunks'[stream_id'][1].data
          /\ Len(chunks'[stream_id']) = 1
    ]_vars

\* A frame split over two chunks sits whole in the buffer.
C3_Witness ==
  /\ pc = "framer"
  /\ stream_id = F1
  /\ Len(chunks[F1]) = 2
  /\ TooShort(deserialize_msg(chunks[F1][1].data))
  /\ _data = chunks[F1][1].data \o chunks[F1][2].data
  /\ deserialize_msg(_data).err = "ok"

\* ----------------------------------------------------------------------- C4
\* C4: when the decoder reports a malformed frame the framer forwards nothing
\* and stages nothing; the buffer becomes the next chunk alone, whatever
\* followed the malformed prefix in it, or, when no chunk is left, the stream
\* ends.
C4_MalformedReplaces ==
  [][(pc = "framer" /\ deserialize_msg(_data).err = "ProtocolError") =>
       /\ forwarded' = forwarded
       /\ UNCHANGED cache_vars
       /\ IF PulledOne
            THEN pc' = "framer" /\ _data' = NewChunk.data
            ELSE chunks' = chunks /\ pc' = "streams"
    ]_vars

\* A valid frame behind a malformed prefix was discarded with it.
C4_Witness ==
  /\ pc = "framer"
  /\ stream_id = F1
  /\ Len(chunks[F1]) = 2
  /\ chunks[F1][1].data = <<"x", "h", "B">>
  /\ _data = chunks[F1][2].data
  /\ forwarded = <<>>

\* The message cache_message is called with in a step of the framer.
Decoded == deserialize_msg(_data)
InvStep == pc = "framer" /\ Decoded.err = "ok" /\ Decoded.msg.command = "inv"
BlockEntries == {i \in DOMAIN Decoded.msg.inventory : Decoded.msg.inventory[i].type = 2}
EntryKey(i) == InvKey(2, Decoded.msg.inventory[i].hash)
FirstSeenOf(i) == REDIS_CONN.string[RKey(EntryKey(i))]
WithinTtl(i) == timestamp - FirstSeenOf(i)[1] <= Ttl * 1000

\* ----------------------------------------------------------------------- C5
\* C5: a first-seen timestamp, once in the store, keeps its value in every
\* step.  A block-type inv entry whose hash has no first-seen timestamp
\* writes the message's timestamp as first-seen and stages a score for the
\* message's node at that timestamp; one whose hash has a first-seen timestamp
\* not more than the TTL before the message's stages the score too.
C5_FirstSeenOnce ==
  [][/\ \A k \in RKeys :
          REDIS_CONN.string[k] # <<>> => REDIS_CONN'.string[k] = REDIS_CONN.string[k]
     /\ InvStep =>
          \A i \in BlockEntries :
            /\ FirstSeenOf(i) = <<>> =>
                 /\ REDIS_CONN'.string[RKey(EntryKey(i))] = <<timestamp>>
                 /\ ZAddOp(EntryKey(i), timestamp, Node(stream_id)) \in Range(Staged)
            /\ (FirstSeenOf(i) # <<>> /\ WithinTtl(i)) =>
                 ZAddOp(EntryKey(i), timestamp, Node(stream_id)) \in Range(Staged)
    ]_vars

\* The spec's example: first seen from the first peer at 1000000, scored by
\* the second peer at 5000000, first-seen unchanged.
C5_Witness ==
  /\ REDIS_CONN.string[RKey(H1Key)] = <<1000000>>
  /\ ZAddOp(H1Key, 1000000, Node(F1)) \in Range(redis_pipe)
  /\ ZAddOp(H1Key, 5000000, Node(F2)) \in Range(redis_pipe)

\* ----------------------------------------------------------------------- C6
\* C6: a block-type inv entry whose timestamp is more than TTL*1000 ms past
\* the first-seen timestamp of its hash, 1 ms past included, is skipped:
\* nothing is staged for its key and first-seen is unchanged.
C6_PastTtlSkipped ==
  [][InvStep =>
       \A i \in BlockEntries :
         (FirstSeenOf(i) # <<>> /\ ~WithinTtl(i)) =>
           /\ \A j \in DOMAIN Staged : Staged[j].key # EntryKey(i)
           /\ REDIS_CONN'.string[RKey(EntryKey(i))] = FirstSeenOf(i)
    ]_vars

\* ----------------------------------------------------------------------- C7
\* C7: a ping key that was not in the store when the file was opened is in
\* no state of the file's processing created, and the pongs seen for such
\* keys add no sample: a peer's RTT list grows by no more than the number of
\* its remembered keys that were in the store.
C7_PongCreatesNothing ==
  /\ \A k \in PingKeys : redis0.list[k] = <<>> => REDIS_CONN.list[k] = <<>>
  /\ \A n \in Nodes :
       Len(REDIS_CONN.list[PeerRttKey(n)]) <=
         Len(redis0.list[PeerRttKey(n)])
         + Cardinality({k \in keys : /\ \E c \in Nonces : k = PingKey(n, c)
                                     /\ redis0.list[k] # <<>>})

\* Both passes done over a file with a pong whose key was not in the store,
\* next to a pong of the same peer that gave a sample.
C7_Witness ==
  /\ pc = "done"
  /\ PingKey(Node(F1), 8) \in keys
  /\ redis0.list[PingKey(Node(F1), 8)] = <<>>
  /\ PingKey(Node(F1), 7) \in keys
  /\ Len(REDIS_CONN.list[PeerRttKey(Node(F1))]) = 1

\* ----------------------------------------------------------------------- C8
\* C8: for every remembered key cache_rtt reads the first two timestamps of
\* the key's list: with fewer than two it stages nothing, otherwise it stages
\* the push of (second - first), of any sign, to the front of the RTT list of
\* the key's peer, then the trim and the expiry; no key is left unread when
\* the RTT pass flushes.
C8_RttStaged ==
  [][/\ (pc = "rtt" /\ rtt_todo' # rtt_todo) =>
          \E n \in Nodes, c \in Nonces :
            /\ PingKey(n, c) \in rtt_todo
            /\ rtt_todo' = rtt_todo \ {PingKey(n, c)}
            /\ LET l == REDIS_CONN.list[PingKey(n, c)]
               IN  IF Len(l) < 2
                     THEN redis_pipe' = redis_pipe
                     ELSE /\ Len(Staged) = 3
                          /\ Staged[1] = LPushOp(PeerRttKey(n), l[2] - l[1])
                          /\ Staged[2] = LTrimOp(PeerRttKey(n), 0, rtt_count - 1)
                          /\ Staged[3] = ExpireOp(PeerRttKey(n), Ttl)
     /\ (pc = "streams" /\ pc' = "rtt") => rtt_todo' = keys
     /\ (pc = "rtt" /\ pc' = "done") => rtt_todo = {}
    ]_vars

\* The spec's example [2000, 2500] gives 500; a pong before its ping gives a
\* negative value; both are staged.
C8_Witness ==
  /\ pc = "rtt"
  /\ LPushOp(PeerRttKey(Node(F1)), 500) \in Range(redis_pipe)
  /\ LPushOp(PeerRttKey(Node(F1)), -1000) \in Range(redis_pipe)

\* ----------------------------------------------------------------------- C9
\* C9: after the RTT pass has flushed, every peer's RTT list holds at most
\* rtt_count samples, for every configured rtt_count.
C9_RttListBounded ==
  pc = "done" => \A n \in Nodes : Len(REDIS_CONN.list[PeerRttKey(n)]) <= rtt_count

\* ---------------------------------------------------------------------- C10
\* C10 as stated: between the start of the message pass and its flush no
\* step changes the store.
MessagePassStep == pc \in {"streams", "framer"} /\ pc' # "rtt"

C10_StoreUntouched ==
  [][MessagePassStep => REDIS_CONN' = REDIS_CONN]_vars

\* C10 as amended: between the start of the message pass and its flush the
\* only change of the store is a first-seen timestamp written where there was
\* none, with the timestamp of the message being cached; every other mutation
\* is staged.
C10_OnlyFirstSeenWritten ==
  [][MessagePassStep =>
       /\ REDIS_CONN'.zset = REDIS_CONN.zset
       /\ REDIS_CONN'.list = REDIS_CONN.list
       /\ REDIS_CONN'.expire = REDIS_CONN.expire
       /\ REDIS_CONN'.string[LastBlockHash] = REDIS_CONN.string[LastBlockHash]
       /\ \A k \in RKeys :
            \/ REDIS_CONN'.string[k] = REDIS_CONN.string[k]
            \/ InvStep /\ REDIS_CONN.string[k] = <<>>
                 /\ REDIS_CONN'.string[k] = <<timestamp>>
    ]_vars

\* In the message pass: a score and the last block hash are staged and not
\* in the store, the first-seen timestamp is in the store.
C10_Witness ==
  /\ pc = "framer"
  /\ ZAddOp(H1Key, 1000000, Node(F1)) \in Range(redis_pipe)
  /\ REDIS_CONN.zset[H1Key][Node(F1)] = <<>>
  /\ REDIS_CONN.string[LastBlockHash] = <<>>
  /\ REDIS_CONN.string[RKey(H1Key)] = <<1000000>>

\* The pong cache_message is called with in a step of the framer.
PongStep == pc = "framer" /\ Decoded.err = "ok" /\ Decoded.msg.command = "pong"
PongKey == PingKey(Node(stream_id), Decoded.msg.nonce)

\* ---------------------------------------------------------------------- C11
\* C11 as stated: a pairing key is in Cache.keys only if its list was in the
\* store, so that the append-if-exists of the pong's timestamp succeeded; a
\* pong whose pairing key is not in the store leaves Cache.keys unchanged.
C11_RememberedOnlyIfExisted ==
  \A k \in keys : redis0.list[k] # <<>>

\* C11 as amended: every pong handed to cache_message puts its pairing key
\* into Cache.keys, whether the key's list is in the store or not, and stages
\* the append-if-exists of its timestamp without touching the store; no other
\* step changes Cache.keys.
C11_EveryPongRemembered ==
  [][IF PongStep
       THEN /\ keys' = keys \cup {PongKey}
            /\ Staged = <<RPushXOp(PongKey, timestamp)>>
            /\ REDIS_CONN' = REDIS_CONN
       ELSE keys' = keys
    ]_vars

\* A pong whose pairing key has no list in the store was cached: its key is
\* remembered and its append is staged.
C11_Witness ==
  /\ pc = "framer"
  /\ redis0.list[PingKey(Node(F1), 7)] = <<>>
  /\ PingKey(Node(F1), 7) \in keys
  /\ RPushXOp(PingKey(Node(F1), 7), 1000) \in Range(redis_pipe)

\* ---------------------------------------------------------------------- C12
\* The step in which ingester p claims a file, and the file it leaves behind.
Claimed(p) == cron_pc[p] = "rename" /\ cron_pc'[p] = "get"
BeingRead(f) == Name(f[1], ".pcap_")

\* C12: the file an ingester claims is, in the directory as it is when the
\* rename happens, the capture file with the smallest name and not the one
\* with the largest; while the directory holds one capture file or none, no
\* capture file leaves it.  The claimed file carries the being-read suffix
\* from the claim on, before the store is read or written for it, and it is
\* removed only when the message pass and then the RTT pass are completed.
C12_OldestNotNewest ==
  [][/\ \A p \in Procs :
          Claimed(p) =>
            /\ oldest[p] \in Glob(pcap_dir)
            /\ oldest[p] = Min(Glob(pcap_dir))
            /\ oldest[p] # Max(Glob(pcap_dir))
            /\ pcap_dir' = (pcap_dir \ {oldest[p]}) \cup {BeingRead(oldest[p])}
            /\ REDIS_CONN' = REDIS_CONN
            /\ passes' = passes
     /\ Cardinality(Glob(pcap_dir)) <= 1 => Glob(pcap_dir) \subseteq Glob(pcap_dir')
     /\ \A p \in Procs :
          (REDIS_CONN' # REDIS_CONN \/ pipes'[p] # pipes[p] \/ rkey_ms'[p] # rkey_ms[p])
            => \E q \in Procs : dump[q] \in pcap_dir /\ dump[q][2] = ".pcap_"
     /\ \A f \in pcap_dir \ pcap_dir' :
          f \notin Glob(pcap_dir) => passes[f[1]] = <<"messages", "rtt">>
    ]_vars

\* The first of two capture files was claimed, processed in both passes and
\* removed; the second, the newest, is still there and unclaimed.
C12_Witness ==
  /\ written = 2
  /\ pcap_dir = {Name(2, ".pcap")}
  /\ passes[1] = <<"messages", "rtt">>
  /\ passes[2] = <<>>
  /\ \A p \in Procs : cron_pc[p] = "sleep"

\* ---------------------------------------------------------------------- C13
\* The timestamps of the pongs cache_message was called with for pairing key
\* k, in the order of the calls.
IsPongOf(m, k) == m.msg.command = "pong" /\ PingKey(m.node, m.msg.nonce) = k
PongTimes(k) ==
  LET sel == SelectSeq(forwarded, LAMBDA m : IsPongOf(m, k))
  IN  [i \in DOMAIN sel |-> sel[i].timestamp]

Flush == REDIS_CONN' = Execute(REDIS_CONN, redis_pipe) /\ redis_pipe' = <<>>

\* C13: processing a file goes through extraction, the streams, the RTT pass
\* and the end in this order; the pipeline is flushed when the last stream is
\* drained and again when cache_rtt has read every remembered key, and in no
\* other step is a staged command applied or dropped.  When the RTT pass
\* reads a pairing key that was in the store, the pong timestamps staged for
\* it in this file are in its list behind what the list held, and the sample
\* (second - first) of that list is staged in the same pass.
C13_TwoFlushes ==
  [][/\ pc' # pc =>
          <<pc, pc'>> \in {<<"extract", "streams">>, <<"streams", "framer">>,
                           <<"framer", "streams">>, <<"streams", "rtt">>,
                           <<"rtt", "done">>}
     /\ (pc = "streams" /\ pc' = "rtt") => (todo = {} /\ Flush)
     /\ (pc = "rtt" /\ pc' = "done") => (rtt_todo = {} /\ Flush)
     /\ pc' \notin {"rtt", "done"} =>
          (IsPrefix(redis_pipe, redis_pipe') /\ REDIS_CONN'.list = REDIS_CONN.list)
     /\ (pc = "rtt" /\ pc' = "rtt") =>
          /\ IsPrefix(redis_pipe, redis_pipe')
          /\ REDIS_CONN' = REDIS_CONN
          /\ \A n \in Nodes, c \in Nonces :
               LET k == PingKey(n, c)
                   l == redis0.list[k] \o PongTimes(k)
               IN  (k \in rtt_todo \ rtt_todo' /\ redis0.list[k] # <<>>) =>
                     /\ PongTimes(k) # <<>>
                     /\ REDIS_CONN.list[k] = l
                     /\ Staged[1] = LPushOp(PeerRttKey(n), l[2] - l[1])
    ]_vars

\* The ping of 2000 was in the store, the pong of 2500 was staged in this
\* file, and the RTT pass of the same file stored the sample of 500.
C13_Witness ==
  /\ pc = "done"
  /\ redis0.list[PingKey(Node(F1), 7)] = <<2000>>
  /\ PongTimes(PingKey(Node(F1), 7)) = <<2500>>
  /\ REDIS_CONN.list[PingKey(Node(F1), 7)] = <<2000, 2500>>
  /\ REDIS_CONN.list[PeerRttKey(Node(F1))] = <<500>>

\* ---------------------------------------------------------------------- C14
\* The timestamps of the block-type inv entries of hash h that cache_message
\* was called with so far.
Observed(h) ==
  {forwarded[i].timestamp :
     i \in {j \in DOMAIN forwarded :
              /\ forwarded[j].msg.command = "inv"
              /\ Entry(2, h) \in Range(forwarded[j].msg.inventory)}}

\* C14: the first-seen timestamp of a block hash that had none when the file
\* was opened is, in every state, the smallest timestamp among the block-type
\* inv entries of that hash processed so far, whatever the order the streams
\* are drained in and whatever the capture times of their segments.
C14_FirstSeenIsEarliest ==
  \A h \in Hashes :
    (Observed(h) # {} /\ redis0.string[RKey(InvKey(2, h))] = <<>>) =>
      /\ REDIS_CONN.string[RKey(InvKey(2, h))] # <<>>
      /\ \A t \in Observed(h) : REDIS_CONN.string[RKey(InvKey(2, h))][1] <= t

\* ---------------------------------------------------------------------- C15
\* C15: of the segments of one stream that carry one sequence number, the
\* one whose payload Stream.data() yields is the one that was put first,
\* whatever their capture times and payloads.
C15_FirstInsertedDelivered ==
  \A f \in Flows :
    \A i \in DOMAIN chunks[f] :
      \A e \in queued[f] :
        e.seq = chunks[f][i].seq => chunks[f][i].id <= e.pkt.id

\* ---------------------------------------------------------------------- C16
\* The segment Stream.data() yielded last for the stream being drained.
LastChunk == chunks[stream_id][Len(chunks[stream_id])]

\* C16: a message handed to cache_message carries the capture timestamp of
\* the segment Stream.data() yielded last, the chunk that last extended or
\* replaced the buffer, and not that of a duplicate dequeued and skipped since;
\* decoding a message pulls no chunk and leaves the timestamp as it is, so
\* the messages decoded from one buffer carry one timestamp.
C16_TimestampOfLastChunk ==
  [][(pc = "framer" /\ Decoded.err = "ok") =>
       /\ Len(forwarded') = Len(forwarded) + 1
       /\ forwarded'[Len(forwarded')].stream_id = stream_id
       /\ \E e \in queued[stream_id] :
            /\ e.pkt.id = LastChunk.id
            /\ forwarded'[Len(forwarded')].timestamp = e.timestamp
       /\ chunks' = chunks
       /\ timestamp' = timestamp
    ]_vars

\* The duplicate of sequence number 100 captured at 2500 was dequeued and
\* skipped before the segment of 104 captured at 1000 was yielded; the two
\* messages forwarded carry 1000.
C16_Witness ==
  /\ \E e \in queued[F1] :
       /\ e.seq = 100 /\ e.timestamp = 2500
       /\ \A i \in DOMAIN chunks[F1] : chunks[F1][i].id # e.pkt.id
  /\ Len(chunks[F1]) = 2
  /\ chunks[F1][2].seq = 104
  /\ chunks[F1][2].timestamp = 1000
  /\ Len(forwarded) = 2
  /\ forwarded[2].timestamp = 1000

\* ---------------------------------------------------------------------- C17
RECURSIVE Concat(_)
Concat(ss) == IF ss = <<>> THEN <<>> ELSE Head(ss) \o Concat(Tail(ss))

RECURSIVE Frames(_)
\* The bytes decoded as one string: whether they are complete valid frames
\* and nothing else, and the messages of the frames.
Frames(bytes) ==
  IF bytes = <<>> THEN [ok |-> TRUE, msgs |-> <<>>]
  ELSE LET d == deserialize_msg(bytes)
       IN  IF d.err # "ok" THEN [ok |-> FALSE, msgs |-> <<>>]
           ELSE LET r == Frames(d.rest)
                IN  [ok |-> r.ok, msgs |-> <<d.msg>> \o r.msgs]

\* The messages cache_message was called with for flow f, in order.
ForwardedOf(f) ==
  LET sel == SelectSeq(forwarded, LAMBDA m : m.stream_id = f)
  IN  [i \in DOMAIN sel |-> sel[i].msg]

\* C17: when the chunks yielded for a stream, put end to end, are complete
\* valid frames and nothing else, the messages forwarded for the stream once
\* it is drained are the messages of those frames, each once and in their
\* order, wherever the chunk borders fall in the frames.
C17_FramesForwarded ==
  \A f \in Flows :
    (Drained(f) /\ Frames(Concat(Payloads(f))).ok) =>
      ForwardedOf(f) = Frames(Concat(Payloads(f))).msgs

\* Two frames in three chunks, no chunk border at a frame border but the
\* last: both messages were forwarded.
C17_Witness ==
  /\ Drained(F1)
  /\ Payloads(F1) = << <<"h">>, <<"B", "h">>, <<"B">> >>
  /\ Len(ForwardedOf(F1)) = 2

\* ---------------------------------------------------------------------- C18
\* C18: the framer loop of every stream ends, whatever the decoder reports
\* for its buffers, and it ends only when data() has no segment left to
\* yield: the step that leaves the loop pulls nothing and leaves the queue
\* empty.  After it the remaining streams are drained in turn and the flush
\* that follows the last stream is reached.
C18_FramerTerminates ==
  /\ [][(pc = "framer" /\ pc' # "framer") =>
          /\ pc' = "streams"
          /\ streams'[stream_id] = {}
          /\ chunks' = chunks
          /\ (TooShort(Decoded) \/ Decoded.err = "ProtocolError")
       ]_vars
  /\ [][(pc = "streams" /\ pc' = "rtt") =>
          \A f \in Flows : queued[f] # {} => Drained(f)']_vars
  /\ (pc = "framer") ~> (pc = "streams")
  /\ <>(pc = "rtt")

\* Both flows had segments: the stream of one ended on a malformed buffer
\* with a duplicate skipped, the other was drained after it and its message
\* forwarded, and the flush was reached.
C18_Witness ==
  /\ pc = "rtt"
  /\ Drained(F1)
  /\ Drained(F2)
  /\ Cardinality(queued[F1]) = 2
  /\ Payloads(F1) = << <<"x">> >>
  /\ Cardinality(queued[F2]) = 1
  /\ stream_id = F2
  /\ Len(ForwardedOf(F2)) = 1

\* ---------------------------------------------------------------------- C19
\* Ingester p is between its claim of a file and the removal of the file.
Reading(p) == cron_pc[p] \in {"get", "cache", "execute", "rtt", "remove"}

\* C19: with the ingesters interleaved at their listings and renames, no
\* capture file is run through cache_messages by more than one ingester, and
\* only the ingester whose rename succeeded reads or writes the store for
\* it.  A rename that fails changes neither the directory nor the store nor
\* a pipeline and sends the ingester back to the start of its loop; the file
\* a rename claims is a capture file no ingester has claimed before.
C19_ClaimedByOne ==
  [][/\ \A f \in Files : Cardinality(readers'[f]) <= 1
     /\ \A p \in Procs :
          /\ Reading(p) => readers[dump[p][1]] = {p}
          /\ (cron_pc[p] = "rename" /\ cron_pc'[p] # "rename" /\ ~Claimed(p)) =>
               /\ cron_pc'[p] = "sleep"
               /\ UNCHANGED <<pcap_dir, REDIS_CONN, pipes, rkey_ms, readers, passes>>
          /\ Claimed(p) =>
               /\ oldest[p][2] = ".pcap"
               /\ readers[oldest[p][1]] = {}
               /\ readers'[oldest[p][1]] = {p}
          /\ (~Reading(p) /\ ~Reading(p)') =>
               (pipes'[p] = pipes[p] /\ rkey_ms'[p] = rkey_ms[p])
     /\ (\A p \in Procs : ~Reading(p)) => REDIS_CONN' = REDIS_CONN
    ]_vars

\* Both ingesters listed the first file as the oldest; one has renamed it and
\* is processing it, the rename of the other is about to fail.
C19_Witness ==
  /\ cron_pc["a"] = "rename"
  /\ oldest["a"] = Name(1, ".pcap")
  /\ oldest["b"] = Name(1, ".pcap")
  /\ cron_pc["b"] = "cache"
  /\ readers[1] = {"b"}
  /\ Name(1, ".pcap") \notin pcap_dir

\* ---------------------------------------------------------------------- C20
\* C20: with two ingesters sharing the store and interleaved at its single
\* operations, a first-seen timestamp that is in the store is not written
\* again: no step replaces it by another value.
C20_FirstSeenWrittenOnce ==
  [][\A h \in Hashes :
       LET rkey == RKey(InvKey(2, h))
       IN  REDIS_CONN.string[rkey] # <<>> =>
             REDIS_CONN'.string[rkey] = REDIS_CONN.string[rkey]
    ]_vars

====
